---- MODULE Spec2Model ----
(***************************************************************************)
(* Bulk-job orchestration of the Shopify source plugin: the job lifecycle  *)
(* (finishLastOperation / op() / completedOperation), the streaming        *)
(* pipeline of sourceFromOperation, the full and the delta pass of         *)
(* sourceNodes, and the products delta hook.                               *)
(*                                                                         *)
(* Strings the code parses (object counts, global identifiers, shopifyId)  *)
(* are sequences of one-character strings, so that parseInt and the        *)
(* identifier pattern are computed character by character.                 *)
(***************************************************************************)
EXTENDS Integers, Sequences, FiniteSets, TLC

(* ------------------------------------------------------------------ *)
(* Bounds of the model                                                *)
(* ------------------------------------------------------------------ *)
\* lines of one result stream
MaxLines == 2
\* latest reading of the clock behind Date.now()
MaxClock == 3

(* ------------------------------------------------------------------ *)
(* Strings                                                            *)
(* ------------------------------------------------------------------ *)
Digits == {"0", "1", "2", "3", "4", "5", "6", "7", "8", "9"}

DigitVal(c) ==
  CASE c = "0" -> 0 [] c = "1" -> 1 [] c = "2" -> 2 [] c = "3" -> 3
    [] c = "4" -> 4 [] c = "5" -> 5 [] c = "6" -> 6 [] c = "7" -> 7
    [] c = "8" -> 8 [] c = "9" -> 9

\* JavaScript numbers: an integer, or NaN where parseInt reads no digit
Num(n) == [nan |-> FALSE, n |-> n]
NaN == [nan |-> TRUE, n |-> 0]

\* a === b on numbers: NaN equals nothing, itself included
StrictEq(a, b) == ~a.nan /\ ~b.nan /\ a.n = b.n

RECURSIVE SkipSpace(_)
SkipSpace(s) ==
  IF s # <<>> /\ Head(s) = " " THEN SkipSpace(Tail(s)) ELSE s

RECURSIVE ReadDigits(_, _)
ReadDigits(s, acc) ==
  IF s # <<>> /\ Head(s) \in Digits
    THEN ReadDigits(Tail(s), 10 * acc + DigitVal(Head(s)))
    ELSE acc

\* parseInt(s, 10): leading white space, an optional sign, then the longest
\* run of decimal digits; NaN when that run is empty.  -0 and 0 are both
\* === 0, so the sign of a zero is not kept.
ParseInt(s) ==
  LET t == SkipSpace(s)
      neg == t # <<>> /\ Head(t) = "-"
      u == IF t # <<>> /\ Head(t) \in {"-", "+"} THEN Tail(t) ELSE t
  IN IF u = <<>> \/ Head(u) \notin Digits
       THEN NaN
       ELSE IF neg THEN Num(0 - ReadDigits(u, 0)) ELSE Num(ReadDigits(u, 0))

Upper == <<"A", "B", "C", "D", "E", "F", "G", "H", "I", "J", "K", "L", "M",
           "N", "O", "P", "Q", "R", "S", "T", "U", "V", "W", "X", "Y", "Z">>
Lower == <<"a", "b", "c", "d", "e", "f", "g", "h", "i", "j", "k", "l", "m",
           "n", "o", "p", "q", "r", "s", "t", "u", "v", "w", "x", "y", "z">>

Range(f) == {f[i] : i \in DOMAIN f}

\* \w of the identifier pattern
WordChars == Range(Upper) \cup Range(Lower) \cup Digits \cup {"_"}

\* String.prototype.toLowerCase on one character
ToLowerCase(c) ==
  IF c \in Range(Upper)
    THEN Lower[CHOOSE i \in DOMAIN Upper : Upper[i] = c]
    ELSE c

IsPrefix(p, s) == Len(s) >= Len(p) /\ SubSeq(s, 1, Len(p)) = p

RECURSIVE WordRun(_)
\* length of the longest run of \w characters s starts with
WordRun(s) ==
  IF s # <<>> /\ Head(s) \in WordChars THEN 1 + WordRun(Tail(s)) ELSE 0

GidPrefix == <<"g", "i", "d", ":", "/", "/", "s", "h", "o", "p", "i", "f", "y", "/">>

\* s.match(/^gid:\/\/shopify\/(\w+)\/(.+)$/): ok, and the groups
\* [0] (the whole string) and [1] (the type); \w+ cannot stop short of
\* the first "/" that follows the prefix, (.+) needs one character.
MatchPattern(s) ==
  IF ~IsPrefix(GidPrefix, s)
    THEN [ok |-> FALSE, full |-> <<>>, remoteType |-> <<>>, localId |-> <<>>]
    ELSE LET r == SubSeq(s, Len(GidPrefix) + 1, Len(s))
             n == WordRun(r)
         IN IF n >= 1 /\ Len(r) >= n + 2 /\ r[n + 1] = "/"
              THEN [ok |-> TRUE, full |-> s, remoteType |-> SubSeq(r, 1, n),
                    localId |-> SubSeq(r, n + 2, Len(r))]
              ELSE [ok |-> FALSE, full |-> <<>>, remoteType |-> <<>>,
                    localId |-> <<>>]

(* ------------------------------------------------------------------ *)
(* Names the code spells out                                          *)
(* ------------------------------------------------------------------ *)
ShopifyStr == <<"S", "h", "o", "p", "i", "f", "y">>
IdStr == <<"I", "d">>
ProductStr == <<"P", "r", "o", "d", "u", "c", "t">>
ProductVariantStr == ProductStr \o <<"V", "a", "r", "i", "a", "n", "t">>
ProductImageStr == ProductStr \o <<"I", "m", "a", "g", "e">>
MetafieldStr == <<"M", "e", "t", "a", "f", "i", "e", "l", "d">>
OrderStr == <<"O", "r", "d", "e", "r">>
LineItemStr == <<"L", "i", "n", "e", "I", "t", "e", "m">>
PricePairStr == <<"P", "r", "i", "c", "e", "P", "a", "i", "r">>
CollectionStr == <<"C", "o", "l", "l", "e", "c", "t", "i", "o", "n">>

\* `Shopify${remoteType}`
TypeName(remoteType) == ShopifyStr \o remoteType

\* the field names attachParentId derives for the parent types in use
ProductIdField == <<"p">> \o Tail(ProductStr) \o IdStr
ProductVariantIdField == <<"p">> \o Tail(ProductVariantStr) \o IdStr
OrderIdField == <<"o">> \o Tail(OrderStr) \o IdStr

Gid(remoteType, localId) == GidPrefix \o remoteType \o <<"/">> \o localId

(* ------------------------------------------------------------------ *)
(* Record Builder (nodeBuilder.buildNode)                             *)
(* ------------------------------------------------------------------ *)
\* an absent (undefined) string field
None == <<>>

\* gatsbyApi.createNodeId: a deterministic local identity of its argument
CreateNodeId(s) == <<"#">> \o s

\* the File node createRemoteFileNode stores for a parent node
FileNode(parentNodeId) ==
  [id |-> <<"f", "i", "l", "e">> \o parentNodeId, shopifyId |-> None,
   type |-> <<"F", "i", "l", "e">>, fields |-> {}, localFile |-> None]

\* the value of a node's field, None when the node has no such field
Field(node, name) ==
  IF \E f \in node.fields : f[1] = name
    THEN (CHOOSE f \in node.fields : f[1] = name)[2]
    ELSE None

\* the name of the raw parent reference
ParentIdStr == <<"_", "_", "p", "a", "r", "e", "n", "t", "I", "d">>

\* A raw record (one parsed line) is an object: id, __parentId (parentId),
\* whether it embeds a featuredImage object and that object's localFile
\* (imageLocalFile), the id of an embedded product, and the properties
\* attachParentId has added to it (attached).

\* mutant: the raw parent reference is copied, not replaced
AttachParentId_KeepsParentId(obj) ==
  IF obj.parentId = None
    THEN [ok |-> TRUE, fields |-> {}]
    ELSE LET m == MatchPattern(obj.parentId)
         IN IF ~m.ok
              THEN [ok |-> FALSE, fields |-> {}]
              ELSE [ok |-> TRUE,
                    fields |-> {<< <<ToLowerCase(Head(m.remoteType))>>
                                     \o Tail(m.remoteType) \o IdStr,
                                   m.full >>,
                                <<ParentIdStr, obj.parentId>>}]

\* attachParentId: the fields it adds to obj ({} without __parentId);
\* ok is FALSE where remoteType is undefined and .charAt throws
AttachParentId(obj) ==
  IF obj.parentId = None
    THEN [ok |-> TRUE, fields |-> {}]
    ELSE LET m == MatchPattern(obj.parentId)
         IN IF ~m.ok
              THEN [ok |-> FALSE, fields |-> {}]
              ELSE [ok |-> TRUE,
                    fields |-> {<< <<ToLowerCase(Head(m.remoteType))>>
                                     \o Tail(m.remoteType) \o IdStr,
                                   m.full >>}]

\* obj once attachParentId(obj) has returned: obj[idField] = fullId replaces a
\* property of that name, and __parentId is deleted
AttachedResult(obj) ==
  LET a == AttachParentId(obj)
  IN [obj EXCEPT
        !.parentId = None,
        !.attached = {f \in @ : \A g \in a.fields : g[1] # f[1]} \cup a.fields]

\* gatsbyApi.createContentDigest(result): a fingerprint of the object's
\* content, nested objects included; equal exactly for equal content
ContentDigest(obj) == <<"digest", obj>>

\* does processorMap[remoteType] await an asset download for this node
NeedsAsset(result, remoteType, downloadImages) ==
  /\ downloadImages
  /\ \/ remoteType = ProductImageStr
     \/ remoteType = ProductStr /\ result.featuredImage

\* mutant: the part after the last "/" is stored as shopifyId
NodeShopifyId_LocalId(result) == MatchPattern(result.id).localId

\* shopifyId: result.id
NodeShopifyId(result) == result.id

\* the node literal of buildNode and what the type's processor sets on it
NodeOf(result, remoteType, fields, localFile) ==
  [id |-> CreateNodeId(result.id), shopifyId |-> NodeShopifyId(result),
   type |-> TypeName(remoteType), fields |-> fields, localFile |-> localFile]

\* mutant: an id that does not match the pattern is built like any other
IdAccepted_Always(result) == TRUE

\* pattern.test(result.id): buildNode throws where it is false
IdAccepted(result) == MatchPattern(result.id).ok

\* buildNode(result): ok and the node built; assetOk is the outcome of the
\* asset download, read only where NeedsAsset holds
BuildNode(result, downloadImages, assetOk) ==
  LET m == MatchPattern(result.id)
      a == AttachParentId(result)
      failed == [ok |-> FALSE, node |-> FileNode(None)]
      own == {f \in result.attached : \A g \in a.fields : g[1] # f[1]}
               \cup a.fields
  IN IF ~IdAccepted(result) \/ ~a.ok
       THEN failed
       ELSE IF m.remoteType = LineItemStr
         THEN IF result.product = None
                THEN failed
                ELSE [ok |-> TRUE,
                      node |-> NodeOf(result, m.remoteType,
                                      {f \in own : f[1] # ProductIdField}
                                        \cup {<<ProductIdField, result.product>>},
                                      None)]
         ELSE IF NeedsAsset(result, m.remoteType, downloadImages)
           THEN IF ~assetOk
                  THEN failed
                  ELSE [ok |-> TRUE,
                        node |-> NodeOf(result, m.remoteType, own,
                                        FileNode(CreateNodeId(result.id)).id)]
           ELSE [ok |-> TRUE, node |-> NodeOf(result, m.remoteType, own, None)]

\* internal.contentDigest of the node buildNode(result) returns: the node
\* literal is evaluated after attachParentId and before the processor
NodeDigest(result) == ContentDigest(AttachedResult(result))

\* the object result as a successful buildNode(result) leaves it: the Product
\* processor writes localFile into the featuredImage object, which the node
\* shares with result
ResultAfterBuild(result, downloadImages, assetOk) ==
  LET m == MatchPattern(result.id)
      r == AttachedResult(result)
  IN IF m.remoteType = ProductStr /\ NeedsAsset(result, m.remoteType, downloadImages)
          /\ assetOk
       THEN [r EXCEPT !.imageLocalFile = FileNode(CreateNodeId(result.id)).id]
       ELSE r

\* raw records of the result streams
Local42 == <<"4", "2">>
Local7 == <<"7">>
RecProduct42 ==
  [id |-> Gid(ProductStr, Local42), parentId |-> None,
   featuredImage |-> TRUE, imageLocalFile |-> None, product |-> None,
   attached |-> {}]
RecVariant7 ==
  [id |-> Gid(ProductVariantStr, Local7), parentId |-> Gid(ProductStr, Local42),
   featuredImage |-> FALSE, imageLocalFile |-> None, product |-> None,
   attached |-> {}]
RecBadId ==
  [id |-> Local42, parentId |-> None, featuredImage |-> FALSE,
   imageLocalFile |-> None, product |-> None, attached |-> {}]
RecOrder9 ==
  [id |-> Gid(OrderStr, <<"9">>), parentId |-> None,
   featuredImage |-> FALSE, imageLocalFile |-> None, product |-> None,
   attached |-> {}]
RecLineItem3 ==
  [id |-> Gid(LineItemStr, <<"3">>), parentId |-> Gid(OrderStr, <<"9">>),
   featuredImage |-> FALSE, imageLocalFile |-> None,
   product |-> Gid(ProductStr, Local42), attached |-> {}]

(* ------------------------------------------------------------------ *)
(* State                                                              *)
(* ------------------------------------------------------------------ *)
VARIABLES
  cache,          \* the persisted LAST_BUILD_TIME; 0 when nothing is persisted
  connections,    \* pluginOptions.shopifyConnections
  downloadImages, \* options.downloadImages
  passPc,         \* where sourceNodes stands
  mode,           \* "none", "full" (sourceAllNodes) or "delta" (sourceChangedNodes)
  lastBuildTime,  \* the local lastBuildTime of sourceChangedNodes
  jobStatus,      \* remote system: the status of each bulk job
  current,        \* remote system: the job currentBulkOperation reports
  pc,             \* where each sourceFromOperation call stands
  resp,           \* the last response completedOperation received
  err,            \* what a failed sourceFromOperation rejected with
  submits,        \* op() calls of each pipeline
  since,          \* the instant each pipeline's op() call was given; 0 for none
  fetched,        \* fetch(resp.node.url) was called
  awaiting,       \* the stream ended and Promise.all awaits the builds
  builds,         \* the promises array: one build per line read
  store,          \* host store: the nodes it holds
  touched,        \* ids given to touchNode in this pass
  deleted,        \* nodes given to deleteNode in this pass
  created,        \* ids of the built nodes given to createNode in this pass
  eventsSince,    \* the argument of fetchDestroyEventsSince; 0 before the call
  destroyEvents,  \* the events fetchDestroyEventsSince returned
  query,          \* the last context.nodeModel.runQuery call and its result
  now,            \* the wall clock Date.now() reads
  changes         \* remote system: the changes made to entities while a pass runs

vars ==
  <<cache, connections, downloadImages, passPc, mode, lastBuildTime, jobStatus,
    current, pc, resp, err, submits, since, fetched, awaiting, builds, store, touched,
    deleted, created, eventsSince, destroyEvents, query, now, changes>>

Pipelines == {"products", "orders"}

\* mutant: the orders operation is pushed whatever the configuration
Operations_Always(conns) == {"products", "orders"}

\* operations = [products]; orders is pushed when it is configured
Operations(conns) ==
  IF "orders" \in conns THEN {"products", "orders"} ELSE {"products"}

\* a bulk job of an earlier invocation, and the job each pipeline submits
JobIds == {"prior"} \cup Pipelines

finishedStatuses == {"COMPLETED", "FAILED", "CANCELED"}

shopifyNodeTypes ==
  {TypeName(LineItemStr), TypeName(MetafieldStr), TypeName(OrderStr),
   TypeName(ProductStr), TypeName(ProductImageStr), TypeName(ProductVariantStr),
   TypeName(ProductVariantStr \o PricePairStr)}

NoResp == [status |-> "none", objectCount |-> None]
\* no resolver has run a query yet
NoQuery == [source |-> <<>>, type |-> <<>>, field |-> <<>>, key |-> <<>>, nodes |-> {}]

NoErr == [kind |-> "none", response |-> NoResp]

\* objectCount strings the remote system may report for a completed job
ObjectCounts ==
  {<<"0">>, <<"0", ".", "5">>, <<"2">>, <<"x">>}

\* the records a line of a pipeline's result stream may hold
ProductLines == {RecProduct42, RecVariant7, RecBadId}
OrderLines == {RecOrder9, RecLineItem3}
Lines(p) == IF p = "products" THEN ProductLines ELSE OrderLines

\* nodes an earlier pass may have left in the host store
StoredProduct42 ==
  [id |-> CreateNodeId(Gid(ProductStr, Local42)), shopifyId |-> Local42,
   type |-> TypeName(ProductStr), fields |-> {}, localFile |-> None]
StoredVariant42 ==
  [id |-> CreateNodeId(Gid(ProductVariantStr, Local42)), shopifyId |-> Local42,
   type |-> TypeName(ProductVariantStr),
   fields |-> {<<ProductIdField, Gid(ProductStr, Local42)>>}, localFile |-> None]
StoredCollection42 ==
  [id |-> CreateNodeId(Gid(CollectionStr, Local42)), shopifyId |-> Local42,
   type |-> TypeName(CollectionStr), fields |-> {}, localFile |-> None]
StoredVariant7 == BuildNode(RecVariant7, FALSE, TRUE).node

StoredCandidates ==
  {StoredProduct42, StoredVariant42, StoredCollection42, StoredVariant7}

\* the host store at the start of a delta pass: empty, or every candidate
InitialStores == {{}, StoredCandidates}

\* destroy events the change feed may return
EventCandidates ==
  {[subject_id |-> 42, subject_type |-> ProductStr],
   [subject_id |-> 7, subject_type |-> ProductVariantStr]}

Init ==
  /\ cache \in {0, 1}
  /\ connections \in {{}, {"orders"}}
  /\ downloadImages \in BOOLEAN
  /\ passPc = "start"
  /\ mode = "none"
  /\ lastBuildTime = 0
  /\ \E s \in {"NONE", "RUNNING"} :
       /\ jobStatus = [j \in JobIds |-> IF j = "prior" THEN s ELSE "NONE"]
       /\ current = IF s = "NONE" THEN "none" ELSE "prior"
  /\ pc = [p \in Pipelines |-> "off"]
  /\ resp = [p \in Pipelines |-> NoResp]
  /\ err = [p \in Pipelines |-> NoErr]
  /\ submits = [p \in Pipelines |-> 0]
  /\ since = [p \in Pipelines |->
                IF submits[p] > 0 /\ mode = "delta" THEN lastBuildTime ELSE 0]
  /\ fetched = [p \in Pipelines |-> FALSE]
  /\ awaiting = [p \in Pipelines |-> FALSE]
  /\ builds = [p \in Pipelines |-> <<>>]
  /\ store \in IF cache = 0 THEN {{}} ELSE InitialStores
  /\ touched = {}
  /\ deleted = {}
  /\ created = {}
  /\ eventsSince = 0
  /\ destroyEvents = {}
  /\ query = NoQuery
  /\ now = cache
  /\ changes = {}

(* ------------------------------------------------------------------ *)
(* Host store collaborator                                            *)
(* ------------------------------------------------------------------ *)
\* actions.createNode: the node replaces a stored node of the same id
CreateNode(st, node) == {n \in st : n.id # node.id} \cup {node}

\* gatsbyApi.getNodesByType
GetNodesByType(st, type) == {n \in st : n.type = type}

(* ------------------------------------------------------------------ *)
(* sourceNodes, sourceAllNodes, sourceChangedNodes                    *)
(* ------------------------------------------------------------------ *)
configVars == <<connections, downloadImages>>
remoteVars == <<jobStatus, current>>
pipeVars == <<pc, resp, err, submits, since, fetched, awaiting, builds>>
hostVars == <<store, touched, deleted, created>>
eventVars == <<eventsSince, destroyEvents>>
worldVars == <<query, now, changes>>

\* mutant: a failed pass stops the pipelines that still run
Alive_UntilPassFails == passPc \notin {"panicked", "failed"}

\* reporter.panic ends the process: nothing of the pass runs after it
Alive == passPc # "panicked"

\* sourceNodes up to its branch on the persisted timestamp
SourceNodes ==
  /\ passPc = "start"
  /\ passPc' = IF cache # 0 THEN "changed" ELSE "all"
  /\ UNCHANGED <<cache, configVars, worldVars, mode, lastBuildTime, remoteVars, pipeVars,
                 hostVars, eventVars>>

\* operations.map(sourceFromOperation): every call runs to its first await
StartPipelines ==
  [p \in Pipelines |-> IF p \in Operations(connections) THEN "drain" ELSE "off"]

\* sourceAllNodes up to its Promise.all
SourceAllNodes ==
  /\ passPc = "all"
  /\ mode' = "full"
  /\ pc' = StartPipelines
  /\ passPc' = "running"
  /\ UNCHANGED <<cache, configVars, worldVars, lastBuildTime, remoteVars, resp, err, submits, since,
                 fetched, awaiting, builds, hostVars, eventVars>>

\* mutant: the touch loop covers products only
TouchPass_ProductsOnly(st) ==
  {n.id : n \in {m \in st : m.type = TypeName(ProductStr)}}

\* the nodes the touch loop of sourceChangedNodes hands to touchNode
TouchPass(st) == {n.id : n \in {m \in st : m.type \in shopifyNodeTypes}}

\* sourceChangedNodes up to its Promise.all: the read of the timestamp, the
\* touch loop, and the start of the delta pipelines
SourceChangedNodes ==
  /\ passPc = "changed"
  /\ mode' = "delta"
  /\ lastBuildTime' = cache
  /\ touched' = touched \cup TouchPass(store)
  /\ pc' = StartPipelines
  /\ passPc' = "running"
  /\ UNCHANGED <<cache, configVars, worldVars, remoteVars, resp, err, submits, since, fetched,
                 awaiting, builds, store, deleted, created, eventVars>>

\* mutant: Promise.race in place of Promise.all
AllPipelinesDone_Any == \E p \in Operations(connections) : pc[p] = "done"

\* Promise.all(operations.map(...)) resolves: every pipeline returned
AllPipelinesDone == \A p \in Operations(connections) : pc[p] = "done"

\* mutant: the full load goes on to the cascade-delete pass as well
AfterPipelines_AlwaysEvents(m) == "events"

\* what follows the awaited Promise.all: sourceChangedNodes fetches the
\* destroy events, sourceAllNodes returns to sourceNodes
AfterPipelines(m) == IF m = "delta" THEN "events" ELSE "save"

PassJoin ==
  /\ passPc = "running"
  /\ AllPipelinesDone
  /\ passPc' = AfterPipelines(mode)
  /\ UNCHANGED <<cache, configVars, worldVars, mode, lastBuildTime, remoteVars, pipeVars,
                 hostVars, eventVars>>

\* Promise.all rejects with the first pipeline that rejects; the others run on
PassFail ==
  /\ passPc = "running"
  /\ \E p \in Operations(connections) : pc[p] = "failed"
  /\ passPc' = "failed"
  /\ UNCHANGED <<cache, configVars, worldVars, mode, lastBuildTime, remoteVars, pipeVars,
                 hostVars, eventVars>>

\* mutant: the event's subject type is not compared
MatchingEvent_IdOnly(events, node) ==
  \E e \in events : StrictEq(Num(e.subject_id), ParseInt(node.shopifyId))

\* destroyEvents.find(...) of the cascade-delete loop for one stored node
MatchingEvent(events, node) ==
  \E e \in events :
    /\ StrictEq(Num(e.subject_id), ParseInt(node.shopifyId))
    /\ node.type = TypeName(e.subject_type)

\* mutant: the nodes whose foreign key names a deleted node go with it
CascadeDelete_WithChildren(st, events) ==
  LET hit == {n \in st : n.type \in shopifyNodeTypes /\ MatchingEvent(events, n)}
  IN hit \cup {c \in st : \E n \in hit : \E f \in c.fields :
                                CreateNodeId(f[2]) = n.id}

\* the nodes the cascade-delete loop hands to deleteNode
CascadeDelete(st, events) ==
  IF events = {}
    THEN {}
    ELSE {n \in st : n.type \in shopifyNodeTypes /\ MatchingEvent(events, n)}

\* when sourceChangedNodes starts its cascade-delete pass
CascadeReady == passPc = "events"

\* fetchDestroyEventsSince(lastBuildTime) and the delete loop that follows
FetchDestroyEvents ==
  /\ CascadeReady
  /\ \E events \in SUBSET EventCandidates :
       /\ eventsSince' = lastBuildTime
       /\ destroyEvents' = events
       /\ store' = store \ CascadeDelete(store, events)
       /\ deleted' = deleted \cup CascadeDelete(store, events)
  /\ passPc' = "save"
  /\ UNCHANGED <<cache, configVars, worldVars, mode, lastBuildTime, remoteVars, pipeVars,
                 touched, created>>

\* the request of fetchDestroyEventsSince fails: sourceChangedNodes rejects
FetchDestroyEventsFails ==
  /\ CascadeReady
  /\ eventsSince' = lastBuildTime
  /\ passPc' = "failed"
  /\ UNCHANGED <<cache, configVars, worldVars, mode, lastBuildTime, remoteVars, pipeVars,
                 hostVars, destroyEvents>>

\* mutant: the timestamp is written in a finally block, after a failure too
SaveReady_AfterFailure == passPc \in {"save", "failed"}

\* mutant: the timestamp is also written while the pipelines run
SaveReady_WhileRunning == passPc \in {"running", "save"}

\* when sourceNodes reaches its cache.set
SaveReady == passPc = "save"

\* cache.set(LAST_BUILD_TIME, Date.now()): the clock's reading when the pass
\* has come to its end, later than every earlier reading
SaveTime ==
  /\ SaveReady
  /\ \E t \in (now + 1)..MaxClock : now' = t /\ cache' = t
  /\ passPc' = IF passPc = "save" THEN "done" ELSE passPc
  /\ UNCHANGED <<configVars, query, changes, mode, lastBuildTime, remoteVars,
                 pipeVars, hostVars, eventVars>>

(* ------------------------------------------------------------------ *)
(* Remote system                                                      *)
(* ------------------------------------------------------------------ *)
ActiveJobs == {j \in JobIds : jobStatus[j] \in {"CREATED", "RUNNING"}}

RemoteRun(j) ==
  /\ jobStatus[j] = "CREATED"
  /\ jobStatus' = [jobStatus EXCEPT ![j] = "RUNNING"]
  /\ UNCHANGED <<cache, configVars, worldVars, passPc, mode, lastBuildTime, current,
                 pipeVars, hostVars, eventVars>>

RemoteFinish(j) ==
  /\ jobStatus[j] = "RUNNING"
  /\ \E s \in finishedStatuses : jobStatus' = [jobStatus EXCEPT ![j] = s]
  /\ UNCHANGED <<cache, configVars, worldVars, passPc, mode, lastBuildTime, current,
                 pipeVars, hostVars, eventVars>>

(* ------------------------------------------------------------------ *)
(* sourceFromOperation                                                *)
(* ------------------------------------------------------------------ *)
\* mutant: the status of the current job is not looked at
DrainReturns_Always(cur, status) == TRUE

\* finishLastOperation returns on this currentBulkOperation response
DrainReturns(cur, status) ==
  \/ cur = "none"
  \/ status \in finishedStatuses

\* finishLastOperation: one poll of the current job
DrainPoll(p) ==
  /\ Alive
  /\ pc[p] = "drain"
  /\ pc' = [pc EXCEPT ![p] =
              IF DrainReturns(current,
                              IF current = "none" THEN "none" ELSE jobStatus[current])
                THEN "submit" ELSE "drainWait"]
  /\ UNCHANGED <<cache, configVars, worldVars, passPc, mode, lastBuildTime, remoteVars, resp,
                 err, submits, since, fetched, awaiting, builds, hostVars, eventVars>>

\* the 1000 ms timer of finishLastOperation, then the recursive call
DrainWait(p) ==
  /\ Alive
  /\ pc[p] = "drainWait"
  /\ pc' = [pc EXCEPT ![p] = "drain"]
  /\ UNCHANGED <<cache, configVars, worldVars, passPc, mode, lastBuildTime, remoteVars, resp,
                 err, submits, since, fetched, awaiting, builds, hostVars, eventVars>>

\* the remote system's jobs once it accepted the query of pipeline p: the new
\* job is the current one, and a finished job of an earlier invocation can no
\* longer be observed (currentBulkOperation reports the newest job only)
AfterSubmit(js, p) ==
  [j \in JobIds |->
     IF j = p THEN "CREATED"
     ELSE IF j = "prior" /\ js[j] \in finishedStatuses THEN "NONE"
     ELSE js[j]]

\* mutant: the user errors are not looked at
Panics_Never(userErrors) == FALSE

\* userErrors.length: reporter.panic is called
Panics(userErrors) == userErrors

\* the argument of op(): sourceAllNodes calls it without one, and
\* sourceChangedNodes with new Date(lastBuildTime).toISOString()
OperationSince(m, t) == IF m = "delta" THEN t ELSE 0

\* await op(): the remote system answers with user errors or with a new job
Submit(p) ==
  /\ Alive
  /\ pc[p] = "submit"
  /\ submits' = [submits EXCEPT ![p] = @ + 1]
  /\ since' = [since EXCEPT ![p] = OperationSince(mode, lastBuildTime)]
  /\ \E userErrors \in BOOLEAN :
       \/ /\ userErrors
          /\ IF Panics(userErrors)
               THEN /\ passPc' = "panicked"
                    /\ pc' = pc
               ELSE /\ passPc' = passPc
                    /\ pc' = [pc EXCEPT ![p] = "poll"]
          /\ UNCHANGED remoteVars
       \/ /\ ~userErrors
          /\ jobStatus' = AfterSubmit(jobStatus, p)
          /\ current' = p
          /\ pc' = [pc EXCEPT ![p] = "poll"]
          /\ passPc' = passPc
  /\ UNCHANGED <<cache, configVars, worldVars, mode, lastBuildTime, resp, err, fetched,
                 awaiting, builds, hostVars, eventVars>>

\* mutant: a FAILED job is polled again like a running one
PollThrows_Never(status) == FALSE

\* mutant: a CANCELED job fails the polling like a FAILED one
PollThrows_OnCanceled(status) == status \in {"FAILED", "CANCELED"}

\* completedOperation throws the response
PollThrows(status) == status = "FAILED"

\* mutant: every finished status but FAILED ends the polling
PollReturns_AnyFinished(status) == status \in finishedStatuses \ {"FAILED"}

\* completedOperation returns the response
PollReturns(status) == status = "COMPLETED"

\* mutant: the count is compared as a string
NoData_StringCompare(objectCount) == objectCount = <<"0">>

\* parseInt(resp.node.objectCount, 10) === 0
NoData(objectCount) == StrictEq(ParseInt(objectCount), Num(0))

\* completedOperation: one poll of the submitted job by id, and, when it
\* returns, the objectCount test of sourceFromOperation
Poll(p) ==
  /\ Alive
  /\ pc[p] = "poll"
  /\ \E oc \in IF jobStatus[p] = "COMPLETED" THEN ObjectCounts ELSE {<<"0">>} :
       LET r == [status |-> jobStatus[p], objectCount |-> oc]
       IN /\ resp' = [resp EXCEPT ![p] = r]
          /\ IF PollThrows(r.status)
               THEN /\ pc' = [pc EXCEPT ![p] = "failed"]
                    /\ err' = [err EXCEPT ![p] = [kind |-> "operation", response |-> r]]
               ELSE IF PollReturns(r.status)
                 THEN /\ pc' = [pc EXCEPT ![p] =
                                  IF NoData(r.objectCount) THEN "done" ELSE "fetch"]
                      /\ err' = err
                 ELSE /\ pc' = [pc EXCEPT ![p] = "pollWait"]
                      /\ err' = err
  /\ UNCHANGED <<cache, configVars, worldVars, passPc, mode, lastBuildTime, remoteVars,
                 submits, since, fetched, awaiting, builds, hostVars, eventVars>>

\* the interval timer of completedOperation, then the recursive call
PollWait(p) ==
  /\ Alive
  /\ pc[p] = "pollWait"
  /\ pc' = [pc EXCEPT ![p] = "poll"]
  /\ UNCHANGED <<cache, configVars, worldVars, passPc, mode, lastBuildTime, remoteVars, resp,
                 err, submits, since, fetched, awaiting, builds, hostVars, eventVars>>

\* fetch(resp.node.url) and createInterface
Fetch(p) ==
  /\ Alive
  /\ pc[p] = "fetch"
  /\ fetched' = [fetched EXCEPT ![p] = TRUE]
  /\ pc' = [pc EXCEPT ![p] = "read"]
  /\ UNCHANGED <<cache, configVars, worldVars, passPc, mode, lastBuildTime, remoteVars, resp,
                 err, submits, since, awaiting, builds, hostVars, eventVars>>

\* An async function runs on in microtasks until it awaits I/O, and no
\* other handler runs in between.  A build that downloads no asset is thus
\* settled when the loop turn that started it ends, and a wrapper whose
\* promise is resolved calls createNode in the turn that attached it or that
\* resolved the promise.  Only a build that awaits an asset download settles
\* in a turn of its own.

\* the promise buildNode(rec) as it stands when the loop turn ends
StartBuild(rec) ==
  LET m == MatchPattern(rec.id)
      b == BuildNode(rec, downloadImages, TRUE)
  IN IF m.ok /\ AttachParentId(rec).ok /\ m.remoteType # LineItemStr
          /\ NeedsAsset(rec, m.remoteType, downloadImages)
       THEN [rec |-> rec, st |-> "pending", node |-> FileNode(None),
             published |-> FALSE]
       ELSE [rec |-> rec, st |-> IF b.ok THEN "resolved" ELSE "rejected",
             node |-> b.node, published |-> FALSE]

\* mutant: the createNode call does not wait for the end of the stream
WrapperRuns_BeforeStreamEnd(isAwaiting, b) ==
  /\ b.st = "resolved"
  /\ ~b.published

\* the wrapper `async (promise) => { node = await promise; createNode(node) }`
\* of build b calls createNode: the wrappers exist once the stream has ended
\* (isAwaiting), and each runs on when its own promise has resolved
WrapperRuns(isAwaiting, b) ==
  /\ isAwaiting
  /\ b.st = "resolved"
  /\ ~b.published

RECURSIVE PublishAll(_, _, _)
\* the store after the createNode calls of the wrappers that run, in order
PublishAll(st, bs, isAwaiting) ==
  IF bs = <<>>
    THEN st
    ELSE PublishAll(IF WrapperRuns(isAwaiting, Head(bs))
                      THEN CreateNode(st, Head(bs).node) ELSE st,
                    Tail(bs), isAwaiting)

\* the ids those createNode calls were given
PublishedIds(bs, isAwaiting) ==
  {bs[i].node.id : i \in {j \in DOMAIN bs : WrapperRuns(isAwaiting, bs[j])}}

\* the builds once those wrappers have run
MarkPublished(bs, isAwaiting) ==
  [i \in DOMAIN bs |->
     IF WrapperRuns(isAwaiting, bs[i]) THEN [bs[i] EXCEPT !.published = TRUE]
                                       ELSE bs[i]]

\* one turn of the for-await loop: JSON.parse and promises.push(buildNode(obj))
\* for a line that holds one of recs
ReadLineFrom(p, recs) ==
  /\ Alive
  /\ pc[p] = "read"
  /\ Len(builds[p]) < MaxLines
  /\ \E rec \in recs :
       LET bs == Append(builds[p], StartBuild(rec))
       IN /\ builds' = [builds EXCEPT ![p] = MarkPublished(bs, awaiting[p])]
          /\ store' = PublishAll(store, bs, awaiting[p])
          /\ created' = created \cup PublishedIds(bs, awaiting[p])
  /\ UNCHANGED <<cache, configVars, worldVars, passPc, mode, lastBuildTime, remoteVars, pc,
                 resp, err, submits, since, fetched, awaiting, touched, deleted, eventVars>>

ReadLine(p) == ReadLineFrom(p, Lines(p))

\* mutant: the loop catches the error and goes on to the next line
AfterParseError_NextLine == "read"

\* JSON.parse throws inside the for-await loop, which nothing catches:
\* sourceFromOperation rejects
AfterParseError == "failed"

\* a line that is no JSON: JSON.parse throws out of the loop
ReadMalformed(p) ==
  /\ Alive
  /\ pc[p] = "read"
  /\ Len(builds[p]) < MaxLines
  /\ pc' = [pc EXCEPT ![p] = AfterParseError]
  /\ err' = [err EXCEPT ![p] = [kind |-> "parse", response |-> NoResp]]
  /\ UNCHANGED <<cache, configVars, worldVars, passPc, mode, lastBuildTime, remoteVars, resp,
                 submits, since, fetched, awaiting, builds, hostVars, eventVars>>

\* the stream ends: promises.map attaches an awaiting wrapper to every build
ReadEnd(p) ==
  /\ Alive
  /\ pc[p] = "read"
  /\ awaiting' = [awaiting EXCEPT ![p] = TRUE]
  /\ pc' = [pc EXCEPT ![p] = "publish"]
  /\ builds' = [builds EXCEPT ![p] = MarkPublished(@, TRUE)]
  /\ store' = PublishAll(store, builds[p], TRUE)
  /\ created' = created \cup PublishedIds(builds[p], TRUE)
  /\ UNCHANGED <<cache, configVars, worldVars, passPc, mode, lastBuildTime, remoteVars, resp,
                 err, submits, since, fetched, touched, deleted, eventVars>>

\* the asset download of build i ends: the build settles, a successful
\* download has stored its File node, and the build's wrapper runs on
BuildSettle(p, i) ==
  /\ Alive
  /\ i \in DOMAIN builds[p]
  /\ builds[p][i].st = "pending"
  /\ \E assetOk \in BOOLEAN :
       LET b == BuildNode(builds[p][i].rec, downloadImages, assetOk)
           bs == [builds[p] EXCEPT ![i] =
                    [@ EXCEPT !.st = IF b.ok THEN "resolved" ELSE "rejected",
                              !.node = b.node]]
           withFile == IF b.ok THEN CreateNode(store, FileNode(b.node.id))
                               ELSE store
       IN /\ builds' = [builds EXCEPT ![p] = MarkPublished(bs, awaiting[p])]
          /\ store' = PublishAll(withFile, bs, awaiting[p])
          /\ created' = created \cup PublishedIds(bs, awaiting[p])
  /\ UNCHANGED <<cache, configVars, worldVars, passPc, mode, lastBuildTime, remoteVars, pc,
                 resp, err, submits, since, fetched, awaiting, touched, deleted, eventVars>>

\* Promise.all of the wrappers rejects with the first rejected build
PipelineRejects(p) ==
  /\ Alive
  /\ pc[p] = "publish"
  /\ \E i \in DOMAIN builds[p] : builds[p][i].st = "rejected"
  /\ pc' = [pc EXCEPT ![p] = "failed"]
  /\ err' = [err EXCEPT ![p] = [kind |-> "build", response |-> NoResp]]
  /\ UNCHANGED <<cache, configVars, worldVars, passPc, mode, lastBuildTime, remoteVars, resp,
                 submits, since, fetched, awaiting, builds, hostVars, eventVars>>

\* Promise.all of the wrappers resolves: every wrapper called createNode
PipelineReturns(p) ==
  /\ Alive
  /\ pc[p] = "publish"
  /\ \A i \in DOMAIN builds[p] : builds[p][i].published
  /\ pc' = [pc EXCEPT ![p] = "done"]
  /\ UNCHANGED <<cache, configVars, worldVars, passPc, mode, lastBuildTime, remoteVars, resp,
                 err, submits, since, fetched, awaiting, builds, hostVars, eventVars>>

(* ------------------------------------------------------------------ *)
(* The products delta hook (incrementalProductsProcessor)             *)
(* ------------------------------------------------------------------ *)
\* const { typePrefix = "" } = pluginOptions
HookTypePrefix == <<>>

\* createNodeId(product.id, gatsbyApi, pluginOptions) of the node builder:
\* the local identity of the node built for that global identifier
HookCreateNodeId(gid) == CreateNodeId(HookTypePrefix \o gid)

HookVariantType == HookTypePrefix \o TypeName(ProductVariantStr)
HookMetafieldType == HookTypePrefix \o TypeName(ProductVariantStr \o MetafieldStr)

\* nodeIds: the node ids of the batch's objects whose remote type is Product
HookNodeIds(objects) ==
  {HookCreateNodeId(objects[i].id) :
     i \in {j \in DOMAIN objects :
              /\ MatchPattern(objects[j].id).ok
              /\ MatchPattern(objects[j].id).remoteType = ProductStr}}

\* mutant: every stored variant is taken for a variant of the batch
VariantsToDelete_All(st, objects) == GetNodesByType(st, HookVariantType)

\* variantsToDelete: the stored variants whose productId is one of nodeIds
VariantsToDelete(st, objects) ==
  {n \in GetNodesByType(st, HookVariantType) :
     Field(n, ProductIdField) \in HookNodeIds(objects)}

\* the stored variant metafields whose productVariantId is a deleted variant
MetafieldsToDelete(st, variants) ==
  {m \in GetNodesByType(st, HookMetafieldType) :
     Field(m, ProductVariantIdField) \in {v.id : v \in variants}}

\* every node the hook hands to deleteNode
HookDeletes(st, objects) ==
  VariantsToDelete(st, objects)
    \cup MetafieldsToDelete(st, VariantsToDelete(st, objects))

\* stored nodes the hook may find: variants that name a product by its node
\* id, a variant as buildNode writes it (productId is the parent's global
\* identifier), and variant metafields
HookVariantOf42 ==
  [id |-> CreateNodeId(Gid(ProductVariantStr, Local7)), shopifyId |-> Gid(ProductVariantStr, Local7),
   type |-> HookVariantType,
   fields |-> {<<ProductIdField, HookCreateNodeId(Gid(ProductStr, Local42))>>},
   localFile |-> None]
HookVariantOf7 ==
  [id |-> CreateNodeId(Gid(ProductVariantStr, <<"8">>)), shopifyId |-> Gid(ProductVariantStr, <<"8">>),
   type |-> HookVariantType,
   fields |-> {<<ProductIdField, HookCreateNodeId(Gid(ProductStr, Local7))>>},
   localFile |-> None]
HookVariantByGid == BuildNode(
  [id |-> Gid(ProductVariantStr, <<"9">>), parentId |-> Gid(ProductStr, Local42),
   featuredImage |-> FALSE, imageLocalFile |-> None, product |-> None,
   attached |-> {}], FALSE, TRUE).node
HookMetafieldOf42 ==
  [id |-> CreateNodeId(Gid(MetafieldStr, <<"1">>)), shopifyId |-> Gid(MetafieldStr, <<"1">>),
   type |-> HookMetafieldType,
   fields |-> {<<ProductVariantIdField, HookVariantOf42.id>>}, localFile |-> None]
HookMetafieldOf7 ==
  [id |-> CreateNodeId(Gid(MetafieldStr, <<"2">>)), shopifyId |-> Gid(MetafieldStr, <<"2">>),
   type |-> HookMetafieldType,
   fields |-> {<<ProductVariantIdField, HookVariantOf7.id>>}, localFile |-> None]

HookCandidates ==
  {HookVariantOf42, HookVariantOf7, HookVariantByGid, HookMetafieldOf42,
   HookMetafieldOf7}

\* a delta pass whose products pipeline is about to read its result stream
InitHook ==
  /\ cache = 1
  /\ connections = {}
  /\ downloadImages \in BOOLEAN
  /\ passPc = "running"
  /\ mode = "delta"
  /\ lastBuildTime = 1
  /\ jobStatus = [j \in JobIds |-> IF j = "products" THEN "COMPLETED" ELSE "NONE"]
  /\ current = "products"
  /\ pc = [p \in Pipelines |-> IF p = "products" THEN "read" ELSE "off"]
  /\ resp = [p \in Pipelines |->
               IF p = "products"
                 THEN [status |-> "COMPLETED", objectCount |-> <<"2">>]
                 ELSE NoResp]
  /\ err = [p \in Pipelines |-> NoErr]
  /\ submits = [p \in Pipelines |-> IF p = "products" THEN 1 ELSE 0]
  /\ since = [p \in Pipelines |->
                IF submits[p] > 0 /\ mode = "delta" THEN lastBuildTime ELSE 0]
  /\ fetched = [p \in Pipelines |-> p = "products"]
  /\ awaiting = [p \in Pipelines |-> FALSE]
  /\ builds = [p \in Pipelines |-> <<>>]
  /\ store \in SUBSET HookCandidates
  /\ touched = TouchPass(store)
  /\ deleted = {}
  /\ created = {}
  /\ eventsSince = 0
  /\ destroyEvents = {}
  /\ query = NoQuery
  /\ now = cache
  /\ changes = {}

\* one turn of the for-await loop of the pipeline that runs the operation's
\* process hook: the parsed object is kept for process(objects, builder)
HookReadLine ==
  /\ pc["products"] = "read"
  /\ Len(builds["products"]) < MaxLines
  /\ \E rec \in Lines("products") :
       builds' = [builds EXCEPT !["products"] =
                    Append(@, [rec |-> rec, st |-> "parsed",
                               node |-> FileNode(None), published |-> FALSE])]
  /\ UNCHANGED <<cache, configVars, worldVars, passPc, mode, lastBuildTime, remoteVars, pc,
                 resp, err, submits, since, fetched, awaiting, hostVars, eventVars>>

\* the stream ends: incrementalProductsProcessor(objects, builder) deletes,
\* returns objects.map(builder.buildNode), and the pipeline awaits the builds
HookProcess ==
  /\ pc["products"] = "read"
  /\ LET objects == [i \in DOMAIN builds["products"] |-> builds["products"][i].rec]
         bs == [i \in DOMAIN objects |-> StartBuild(objects[i])]
     IN /\ deleted' = deleted \cup HookDeletes(store, objects)
        /\ builds' = [builds EXCEPT !["products"] = MarkPublished(bs, TRUE)]
        /\ store' = PublishAll(store \ HookDeletes(store, objects), bs, TRUE)
        /\ created' = created \cup PublishedIds(bs, TRUE)
  /\ awaiting' = [awaiting EXCEPT !["products"] = TRUE]
  /\ pc' = [pc EXCEPT !["products"] = "publish"]
  /\ UNCHANGED <<cache, configVars, worldVars, passPc, mode, lastBuildTime, remoteVars, resp,
                 err, submits, since, fetched, touched, eventVars>>

NextHook ==
  \/ HookReadLine
  \/ HookProcess
  \/ \E i \in 1..MaxLines : BuildSettle("products", i)
  \/ PipelineRejects("products")
  \/ PipelineReturns("products")

SpecHook == InitHook /\ [][NextHook]_vars

(* ------------------------------------------------------------------ *)
(* The Record Builder on the records a stream can hold                *)
(* ------------------------------------------------------------------ *)
RecBadParent ==
  [id |-> Gid(ProductVariantStr, <<"8">>), parentId |-> Local42,
   featuredImage |-> FALSE, imageLocalFile |-> None, product |-> None,
   attached |-> {}]
RecImage1 ==
  [id |-> Gid(ProductImageStr, <<"1">>), parentId |-> Gid(ProductStr, Local42),
   featuredImage |-> FALSE, imageLocalFile |-> None, product |-> None,
   attached |-> {}]
RecNoLocalId ==
  [id |-> Gid(ProductStr, <<>>), parentId |-> None, featuredImage |-> FALSE,
   imageLocalFile |-> None, product |-> None, attached |-> {}]
RecProductPlain ==
  [id |-> Gid(ProductStr, Local7), parentId |-> None, featuredImage |-> FALSE,
   imageLocalFile |-> None, product |-> None, attached |-> {}]

\* records with and without __parentId, of every type that has a processor,
\* and records whose id or __parentId the pattern does not match
BuildRecords ==
  {RecProduct42, RecProductPlain, RecVariant7, RecImage1, RecLineItem3,
   RecBadId, RecNoLocalId, RecBadParent}

\* a full pass whose products pipeline is about to read its result stream
InitBuild ==
  /\ cache = 0
  /\ connections = {}
  /\ downloadImages \in BOOLEAN
  /\ passPc = "running"
  /\ mode = "full"
  /\ lastBuildTime = 0
  /\ jobStatus = [j \in JobIds |-> IF j = "products" THEN "COMPLETED" ELSE "NONE"]
  /\ current = "products"
  /\ pc = [p \in Pipelines |-> IF p = "products" THEN "read" ELSE "off"]
  /\ resp = [p \in Pipelines |->
               IF p = "products"
                 THEN [status |-> "COMPLETED", objectCount |-> <<"2">>]
                 ELSE NoResp]
  /\ err = [p \in Pipelines |-> NoErr]
  /\ submits = [p \in Pipelines |-> IF p = "products" THEN 1 ELSE 0]
  /\ since = [p \in Pipelines |->
                IF submits[p] > 0 /\ mode = "delta" THEN lastBuildTime ELSE 0]
  /\ fetched = [p \in Pipelines |-> p = "products"]
  /\ awaiting = [p \in Pipelines |-> FALSE]
  /\ builds = [p \in Pipelines |-> <<>>]
  /\ store = {}
  /\ touched = {}
  /\ deleted = {}
  /\ created = {}
  /\ eventsSince = 0
  /\ destroyEvents = {}
  /\ query = NoQuery
  /\ now = cache
  /\ changes = {}

NextBuild ==
  \/ ReadLineFrom("products", BuildRecords)
  \/ ReadEnd("products")
  \/ \E i \in 1..MaxLines : BuildSettle("products", i)
  \/ PipelineRejects("products")
  \/ PipelineReturns("products")

SpecBuild == InitBuild /\ [][NextBuild]_vars

(* ------------------------------------------------------------------ *)
(* The completion phase (completedOperation) on submitted jobs        *)
(* ------------------------------------------------------------------ *)
\* a pass in which every configured pipeline has submitted its job and is
\* about to poll it for the first time
InitPoll ==
  /\ cache \in {0, 1}
  /\ connections \in {{}, {"orders"}}
  /\ downloadImages \in BOOLEAN
  /\ passPc = "running"
  /\ mode = IF cache = 0 THEN "full" ELSE "delta"
  /\ lastBuildTime = cache
  /\ jobStatus = [j \in JobIds |->
                    IF j \in Operations(connections) THEN "CREATED" ELSE "NONE"]
  /\ current \in Operations(connections)
  /\ pc = [p \in Pipelines |-> IF p \in Operations(connections) THEN "poll" ELSE "off"]
  /\ resp = [p \in Pipelines |-> NoResp]
  /\ err = [p \in Pipelines |-> NoErr]
  /\ submits = [p \in Pipelines |-> IF p \in Operations(connections) THEN 1 ELSE 0]
  /\ since = [p \in Pipelines |->
                IF submits[p] > 0 /\ mode = "delta" THEN lastBuildTime ELSE 0]
  /\ fetched = [p \in Pipelines |-> FALSE]
  /\ awaiting = [p \in Pipelines |-> FALSE]
  /\ builds = [p \in Pipelines |-> <<>>]
  /\ store = {}
  /\ touched = {}
  /\ deleted = {}
  /\ created = {}
  /\ eventsSince = 0
  /\ destroyEvents = {}
  /\ query = NoQuery
  /\ now = cache
  /\ changes = {}

NextPoll ==
  \/ \E j \in JobIds : RemoteRun(j)
  \/ \E j \in JobIds : RemoteFinish(j)
  \/ \E p \in Pipelines : Poll(p)
  \/ \E p \in Pipelines : PollWait(p)
  \/ PassJoin
  \/ PassFail

\* the status request returns and the interval timer fires: a poll that can
\* be made is made.  Nothing is assumed of the remote system.
PollFairness ==
  \A p \in Pipelines : WF_vars(Poll(p)) /\ WF_vars(PollWait(p))

SpecPoll == InitPoll /\ [][NextPoll]_vars /\ PollFairness

(* ------------------------------------------------------------------ *)
(* The cascade-delete pass on nodes the Record Builder made           *)
(* ------------------------------------------------------------------ *)
\* the nodes an earlier pass built from the records of its streams and
\* published
BuiltNodes(dl) ==
  {BuildNode(rec, dl, TRUE).node :
     rec \in {r \in Lines("products") \cup Lines("orders") :
                BuildNode(r, dl, TRUE).ok}}

\* a later delta pass whose pipelines have returned without new data: the
\* host store holds nodes of the earlier pass
InitCascade ==
  /\ cache = 1
  /\ connections \in {{}, {"orders"}}
  /\ downloadImages \in BOOLEAN
  /\ passPc = "events"
  /\ mode = "delta"
  /\ lastBuildTime = 1
  /\ jobStatus = [j \in JobIds |->
                    IF j \in Operations(connections) THEN "COMPLETED" ELSE "NONE"]
  /\ current \in Operations(connections)
  /\ pc = [p \in Pipelines |-> IF p \in Operations(connections) THEN "done" ELSE "off"]
  /\ resp = [p \in Pipelines |->
               IF p \in Operations(connections)
                 THEN [status |-> "COMPLETED", objectCount |-> <<"0">>]
                 ELSE NoResp]
  /\ err = [p \in Pipelines |-> NoErr]
  /\ submits = [p \in Pipelines |-> IF p \in Operations(connections) THEN 1 ELSE 0]
  /\ since = [p \in Pipelines |->
                IF submits[p] > 0 /\ mode = "delta" THEN lastBuildTime ELSE 0]
  /\ fetched = [p \in Pipelines |-> FALSE]
  /\ awaiting = [p \in Pipelines |-> FALSE]
  /\ builds = [p \in Pipelines |-> <<>>]
  /\ store \in SUBSET BuiltNodes(downloadImages)
  /\ touched = TouchPass(store)
  /\ deleted = {}
  /\ created = {}
  /\ eventsSince = 0
  /\ destroyEvents = {}
  /\ query = NoQuery
  /\ now = cache
  /\ changes = {}

NextCascade ==
  \/ FetchDestroyEvents
  \/ FetchDestroyEventsFails
  \/ SaveTime

SpecCascade == InitCascade /\ [][NextCascade]_vars

(* ------------------------------------------------------------------ *)
(* createResolvers: the children queries on published nodes           *)
(* ------------------------------------------------------------------ *)
ProductVariantPricePairStr == ProductVariantStr \o PricePairStr

\* the fields createResolvers adds: the type that gets the field, the type
\* runQuery is asked for, and the field its filter compares
Resolvers ==
  {[on |-> TypeName(OrderStr), name |-> "lineItems",
    type |-> TypeName(LineItemStr), field |-> OrderIdField],
   [on |-> TypeName(ProductVariantStr), name |-> "presentmentPrices",
    type |-> TypeName(ProductVariantPricePairStr), field |-> ProductVariantIdField],
   [on |-> TypeName(ProductVariantStr), name |-> "metafields",
    type |-> TypeName(MetafieldStr), field |-> ProductVariantIdField],
   [on |-> TypeName(ProductStr), name |-> "images",
    type |-> TypeName(ProductImageStr), field |-> ProductIdField],
   [on |-> TypeName(ProductStr), name |-> "variants",
    type |-> TypeName(ProductVariantStr), field |-> ProductIdField]}

\* mutant: the filter compares the foreign key with the node's local identity
ResolverKey_NodeId(source) == source.id

\* the value every resolve() puts in its filter: { eq: source.shopifyId }
ResolverKey(source) == source.shopifyId

\* context.nodeModel.runQuery({ query: { filter: { [field]: { eq: key } } },
\* type, firstOnly: false }): a read of the host store
RunQuery(st, type, field, key) ==
  {n \in GetNodesByType(st, type) : Field(n, field) = key}

\* the host resolves the field r of the stored node source
Resolve(source, r) ==
  /\ source \in store
  /\ r \in Resolvers
  /\ r.on = source.type
  /\ query' = [source |-> source.id, type |-> r.type, field |-> r.field,
               key |-> ResolverKey(source),
               nodes |-> RunQuery(store, r.type, r.field, ResolverKey(source))]
  /\ UNCHANGED <<cache, configVars, now, changes, passPc, mode, lastBuildTime,
                 remoteVars, pipeVars, hostVars, eventVars>>

RecMetafield5 ==
  [id |-> Gid(MetafieldStr, <<"5">>), parentId |-> Gid(ProductVariantStr, Local7),
   featuredImage |-> FALSE, imageLocalFile |-> None, product |-> None,
   attached |-> {}]
RecVariant8 ==
  [id |-> Gid(ProductVariantStr, <<"8">>), parentId |-> Gid(ProductStr, Local7),
   featuredImage |-> FALSE, imageLocalFile |-> None, product |-> None,
   attached |-> {}]

\* parents and children of every pair of types that has a resolver and whose
\* records the streams carry with an id
ResolveRecords ==
  {RecProduct42, RecVariant7, RecImage1, RecMetafield5, RecOrder9, RecLineItem3}

\* a delta pass whose products pipeline is about to read its result stream;
\* the host store may hold a variant of another product from an earlier pass
InitResolve ==
  /\ cache = 1
  /\ connections = {}
  /\ downloadImages \in BOOLEAN
  /\ passPc = "running"
  /\ mode = "delta"
  /\ lastBuildTime = 1
  /\ jobStatus = [j \in JobIds |-> IF j = "products" THEN "COMPLETED" ELSE "NONE"]
  /\ current = "products"
  /\ pc = [p \in Pipelines |-> IF p = "products" THEN "read" ELSE "off"]
  /\ resp = [p \in Pipelines |->
               IF p = "products"
                 THEN [status |-> "COMPLETED", objectCount |-> <<"2">>]
                 ELSE NoResp]
  /\ err = [p \in Pipelines |-> NoErr]
  /\ submits = [p \in Pipelines |-> IF p = "products" THEN 1 ELSE 0]
  /\ since = [p \in Pipelines |->
                IF submits[p] > 0 /\ mode = "delta" THEN lastBuildTime ELSE 0]
  /\ fetched = [p \in Pipelines |-> p = "products"]
  /\ awaiting = [p \in Pipelines |-> FALSE]
  /\ builds = [p \in Pipelines |-> <<>>]
  /\ store \in SUBSET {BuildNode(RecVariant8, FALSE, TRUE).node}
  /\ touched = TouchPass(store)
  /\ deleted = {}
  /\ created = {}
  /\ eventsSince = 0
  /\ destroyEvents = {}
  /\ query = NoQuery
  /\ now = cache
  /\ changes = {}

NextResolve ==
  \/ ReadLineFrom("products", ResolveRecords)
  \/ ReadEnd("products")
  \/ \E i \in 1..MaxLines : BuildSettle("products", i)
  \/ PipelineRejects("products")
  \/ PipelineReturns("products")
  \/ \E source \in store, r \in Resolvers : Resolve(source, r)

SpecResolve == InitResolve /\ [][NextResolve]_vars

(* ------------------------------------------------------------------ *)
(* The sync window: remote changes while a pass runs                  *)
(* ------------------------------------------------------------------ *)
\* the bulk job of every enabled collection has completed: the data the pass
\* will stream is fixed
Captured == \A j \in Operations(connections) : jobStatus[j] = "COMPLETED"

\* the remote system changes an entity, at a time later than every reading of
\* the clock so far
RemoteChange ==
  /\ \E t \in (now + 1)..MaxClock :
       /\ now' = t
       /\ changes' = changes \cup {[at |-> t, afterCapture |-> Captured]}
  /\ UNCHANGED <<cache, configVars, query, passPc, mode, lastBuildTime,
                 remoteVars, pipeVars, hostVars, eventVars>>

\* a pass with one enabled collection whose job has been submitted and runs
InitWindow ==
  /\ cache \in {0, 1}
  /\ connections = {}
  /\ downloadImages = FALSE
  /\ passPc = "running"
  /\ mode = IF cache = 0 THEN "full" ELSE "delta"
  /\ lastBuildTime = cache
  /\ jobStatus = [j \in JobIds |-> IF j = "products" THEN "RUNNING" ELSE "NONE"]
  /\ current = "products"
  /\ pc = [p \in Pipelines |-> IF p = "products" THEN "poll" ELSE "off"]
  /\ resp = [p \in Pipelines |-> NoResp]
  /\ err = [p \in Pipelines |-> NoErr]
  /\ submits = [p \in Pipelines |-> IF p = "products" THEN 1 ELSE 0]
  /\ since = [p \in Pipelines |->
                IF submits[p] > 0 /\ mode = "delta" THEN lastBuildTime ELSE 0]
  /\ fetched = [p \in Pipelines |-> FALSE]
  /\ awaiting = [p \in Pipelines |-> FALSE]
  /\ builds = [p \in Pipelines |-> <<>>]
  /\ store = {}
  /\ touched = {}
  /\ deleted = {}
  /\ created = {}
  /\ eventsSince = 0
  /\ destroyEvents = {}
  /\ query = NoQuery
  /\ now = cache
  /\ changes = {}

NextWindow ==
  \/ RemoteChange
  \/ RemoteFinish("products")
  \/ Poll("products")
  \/ PollWait("products")
  \/ Fetch("products")
  \/ ReadLine("products")
  \/ ReadEnd("products")
  \/ PipelineRejects("products")
  \/ PipelineReturns("products")
  \/ PassJoin
  \/ PassFail
  \/ FetchDestroyEvents
  \/ FetchDestroyEventsFails
  \/ SaveTime

SpecWindow == InitWindow /\ [][NextWindow]_vars

(* ------------------------------------------------------------------ *)
(* Properties                                                         *)
(* ------------------------------------------------------------------ *)
\* the persisted timestamp as it was when the pass started
PreRunTimestamp ==
  IF mode = "delta" THEN lastBuildTime ELSE IF mode = "full" THEN 0 ELSE cache

\* pipeline p makes its op() call in this step
Submits(p) == pc[p] = "submit" /\ submits'[p] = submits[p] + 1

\* C1: the remote system never has two unfinished bulk jobs at once: no
\* pipeline submits a job while a submitted job is still CREATED or RUNNING.
C1_NoSubmitWhileJobActive ==
  [][\A p \in Pipelines : Submits(p) => ActiveJobs = {}]_vars

PublishedBuilds(p) == {i \in DOMAIN builds[p] : builds[p][i].published}

\* C2 as claimed: a node of a batch is published only when every build of
\* the batch has resolved; a batch with a failed build publishes nothing.
C2_AllOrNothing ==
  \A p \in Pipelines :
    PublishedBuilds(p) # {} =>
      \A i \in DOMAIN builds[p] : builds[p][i].st = "resolved"

\* C2 as amended: a node of a batch is published only after the whole stream
\* was read (no line is read after a publication) and after its own build
\* resolved, and the pipeline hands nothing else to createNode.
C2_PublishedAfterStreamAndOwnBuild ==
  /\ \A p \in Pipelines :
       /\ \A i \in PublishedBuilds(p) :
            /\ awaiting[p]
            /\ builds[p][i].st = "resolved"
            /\ builds[p][i].node = BuildNode(builds[p][i].rec, downloadImages, TRUE).node
       /\ awaiting[p] => pc[p] \in {"publish", "done", "failed"}
  /\ created =
       UNION {{builds[p][i].node.id : i \in PublishedBuilds(p)} : p \in Pipelines}

\* C2's case: a batch published in part, one build published and one failed
C2_Witness ==
  \E p \in Pipelines :
    /\ pc[p] = "failed"
    /\ \E i, j \in DOMAIN builds[p] :
         builds[p][i].published /\ builds[p][j].st = "rejected"

\* C3: the persisted timestamp differs from its value before the pass only
\* when the whole pass succeeded; after a failed pass it is that value.
C3_TimestampOnlyOnSuccess ==
  /\ cache # PreRunTimestamp =>
       /\ passPc = "done"
       /\ AllPipelinesDone
       /\ \A p \in Pipelines : err[p] = NoErr
       /\ mode = "delta" => eventsSince = PreRunTimestamp
  /\ (passPc \in {"failed", "panicked"}
      \/ \E p \in Pipelines : pc[p] = "failed") => cache = PreRunTimestamp

C3_Witness ==
  /\ passPc = "failed"
  /\ mode = "delta"
  /\ \E p \in Pipelines : err[p].kind = "build"
  /\ cache = lastBuildTime

\* C4: a poll that returns FAILED makes the pipeline fail with that
\* response; the stream is not fetched and the pipeline publishes nothing.
C4_FailedJobFailsPipeline ==
  \A p \in Pipelines :
    resp[p].status = "FAILED" =>
      /\ pc[p] = "failed"
      /\ err[p] = [kind |-> "operation", response |-> resp[p]]
      /\ ~fetched[p]
      /\ builds[p] = <<>>

C4_Witness ==
  \E p \in Pipelines :
    /\ resp[p].status = "FAILED"
    /\ jobStatus[p] = "FAILED"
    /\ pc[p] = "failed"

\* pipeline p made its op() call and the remote system created no job
Rejected(p) == submits[p] > 0 /\ jobStatus[p] = "NONE"

\* C5: user errors on submission abort the whole pass at that point: the
\* job is never polled, the pipeline publishes nothing, the submission is
\* not retried, the timestamp is not advanced, and nothing of the pass runs
\* afterwards.
C5_UserErrorsAbortPass ==
  /\ [](\A p \in Pipelines :
          /\ submits[p] <= 1
          /\ Rejected(p) =>
               /\ passPc = "panicked"
               /\ pc[p] = "submit"
               /\ resp[p] = NoResp
               /\ ~fetched[p]
               /\ builds[p] = <<>>
               /\ cache = PreRunTimestamp)
  /\ [][(\E p \in Pipelines : Rejected(p)) =>
          UNCHANGED <<cache, passPc, pc, resp, err, submits, fetched, awaiting,
                      builds, hostVars, eventVars>>]_vars

\* C5's case: the pass aborted while the other pipeline was reading its stream
C5_Witness ==
  /\ passPc = "panicked"
  /\ \E p, q \in Pipelines : Rejected(p) /\ pc[q] = "read" /\ builds[q] # <<>>

\* the decimal string reads as the number 0
ReadsAsZero(s) == ~ParseInt(s).nan /\ ParseInt(s).n = 0

\* C6: a job completed with an objectCount that parses to 0 ends the
\* pipeline successfully with no fetch, no build and no publication; with
\* any other objectCount the result stream is fetched.
C6_ZeroCountSkipsStream ==
  \A p \in Pipelines :
    resp[p].status = "COMPLETED" =>
      IF ReadsAsZero(resp[p].objectCount)
        THEN /\ pc[p] = "done"
             /\ err[p] = NoErr
             /\ ~fetched[p]
             /\ builds[p] = <<>>
        ELSE pc[p] = "fetch" \/ fetched[p]

C6_Witness ==
  \E p, q \in Pipelines :
    /\ resp[p].status = "COMPLETED" /\ resp[p].objectCount = <<"0", ".", "5">>
    /\ pc[p] = "done" /\ ~fetched[p]
    /\ resp[q].status = "COMPLETED" /\ resp[q].objectCount = <<"x">>
    /\ fetched[q]

IsTracked(n) == n.type \in shopifyNodeTypes

\* C7: in a delta pass every stored record of a tracked type is touched
\* before any delta job is submitted and before any deletion, whatever the
\* delta jobs return; no touch follows a submission or a deletion.
C7_TouchBeforeFetchAndDelete ==
  /\ [](mode = "delta" =>
          /\ \A n \in store : IsTracked(n) => n.id \in touched \/ n.id \in created
          /\ \A n \in deleted : n.id \in touched \/ n.id \in created)
  /\ [][touched' # touched =>
          /\ deleted = {}
          /\ \A p \in Pipelines : submits[p] = 0
          /\ touched' = {n.id : n \in {m \in store : IsTracked(m)}}]_vars

C7_Witness ==
  /\ mode = "delta"
  /\ \A p \in Pipelines : created = {} /\ (pc[p] = "off" \/ ~fetched[p])
  /\ StoredProduct42.id \in touched
  /\ StoredCollection42 \in store /\ StoredCollection42.id \notin touched
  /\ StoredProduct42 \in deleted

\* C8: the change feed is fetched, and nodes are deleted, only after the
\* delta pipeline of every enabled collection returned, and the fetch is
\* given the timestamp that was persisted when the pass started.
C8_CascadeAfterAllPipelines ==
  (eventsSince # 0 \/ deleted # {}) =>
    /\ mode = "delta"
    /\ \A p \in Operations(connections) : pc[p] = "done"
    /\ eventsSince = PreRunTimestamp
    /\ passPc # "done" => eventsSince = cache

C8_Witness ==
  /\ connections = {"orders"}
  /\ deleted # {}
  /\ created # {}
  /\ eventsSince = 1

\* n as a decimal string
RECURSIVE Decimal(_)
Decimal(n) ==
  IF n < 10 THEN <<CHOOSE c \in Digits : DigitVal(c) = n>>
            ELSE Decimal(n \div 10) \o <<CHOOSE c \in Digits : DigitVal(c) = n % 10>>

\* the destroy event names the node: its subject id is the node's shopifyId
\* and its subject type is the node's type
EventNames(e, n) ==
  /\ n.shopifyId = Decimal(e.subject_id)
  /\ n.type = ShopifyStr \o e.subject_type

\* C9: the cascade-delete pass deletes a stored node of a tracked type if
\* and only if a destroy event names both its shopifyId and its type.
C9_CascadeDeletesExactlyMatches ==
  passPc \in {"save", "done"} /\ mode = "delta" =>
    /\ \A n \in deleted : IsTracked(n) /\ \E e \in destroyEvents : EventNames(e, n)
    /\ \A n \in store : IsTracked(n) => ~\E e \in destroyEvents : EventNames(e, n)
    /\ \A n \in StoredCandidates :
         n.id \in touched => n \in store \/ n \in deleted \/ n.id \in created

C9_Witness ==
  /\ [subject_id |-> 42, subject_type |-> ProductStr] \in destroyEvents
  /\ StoredProduct42 \in deleted
  /\ StoredVariant42 \in store
  /\ StoredCollection42 \in store

\* the node ids of the products of the batch the hook was given
BatchProductIds ==
  {HookCreateNodeId(builds["products"][i].rec.id) :
     i \in {j \in DOMAIN builds["products"] :
              IsPrefix(GidPrefix \o ProductStr \o <<"/">>, builds["products"][j].rec.id)}}

IsVariantOfBatch(n) ==
  n.type = HookVariantType /\ Field(n, ProductIdField) \in BatchProductIds

ResolvedBuilds == {i \in DOMAIN builds["products"] : builds["products"][i].st = "resolved"}

\* the foreign-key field a parent reference of each parent type in use names
ForeignKeyOf(parentId) ==
  IF IsPrefix(GidPrefix \o ProductStr \o <<"/">>, parentId) THEN ProductIdField
  ELSE IF IsPrefix(GidPrefix \o OrderStr \o <<"/">>, parentId) THEN OrderIdField
  ELSE None

\* C11: a node built from a record with a __parentId has the field named after
\* the parent's type (first letter lower-cased, "Id" appended) set to the
\* parent's full global identifier and has no __parentId field; no node in the
\* host store carries __parentId.
C11_ParentIdBecomesForeignKey ==
  /\ \A i \in ResolvedBuilds :
       LET b == builds["products"][i]
       IN /\ Field(b.node, ParentIdStr) = None
          /\ b.rec.parentId # None =>
               /\ ForeignKeyOf(b.rec.parentId) # None
               /\ Field(b.node, ForeignKeyOf(b.rec.parentId)) = b.rec.parentId
  /\ \A n \in store : Field(n, ParentIdStr) = None

C11_Witness ==
  \E i \in ResolvedBuilds :
    /\ builds["products"][i].rec = RecVariant7
    /\ builds["products"][i].published
    /\ builds["products"][i].node \in store

C13_RebuildIsIdempotent ==
  /\ \A i \in ResolvedBuilds :
       LET b == builds["products"][i]
           after == ResultAfterBuild(b.rec, downloadImages, TRUE)
           again == BuildNode(after, downloadImages, TRUE)
       IN /\ again.ok
          /\ again.node.id = b.node.id
          /\ NodeDigest(after) = NodeDigest(b.rec)
  /\ \A i, j \in ResolvedBuilds :
       builds["products"][i].rec.id = builds["products"][j].rec.id
         => builds["products"][i].node.id = builds["products"][j].node.id

\* the record's id, or a __parentId it has, does not match the pattern
Unrecognized(rec) ==
  \/ ~MatchPattern(rec.id).ok
  \/ rec.parentId # None /\ ~MatchPattern(rec.parentId).ok

\* C14: the build of a record whose id, or whose present __parentId, does not
\* match the identifier pattern fails and gives the host no node; the pipeline
\* whose batch holds such a record never returns, it fails with the build.
C14_UnrecognizedIdFailsBatch ==
  /\ \A i \in DOMAIN builds["products"] :
       Unrecognized(builds["products"][i].rec) =>
         /\ builds["products"][i].st = "rejected"
         /\ ~builds["products"][i].published
  /\ (\E i \in DOMAIN builds["products"] : Unrecognized(builds["products"][i].rec)) =>
       /\ pc["products"] # "done"
       /\ pc["products"] = "failed" => err["products"].kind = "build"

C14_Witness ==
  /\ pc["products"] = "failed"
  /\ err["products"].kind = "build"
  /\ Len(builds["products"]) = 2
  /\ builds["products"][1].rec = RecBadParent
  /\ builds["products"][2].rec = RecBadId
  /\ builds["products"][1].st = "rejected"
  /\ builds["products"][2].st = "rejected"

\* C15: when a line of a result stream is no valid JSON, the pipeline of that
\* stream fails and no node built from the stream is given to createNode,
\* however many valid lines came before.
C15_MalformedLineFailsUnpublished ==
  \A p \in Pipelines :
    err[p].kind = "parse" =>
      /\ pc[p] = "failed"
      /\ ~awaiting[p]
      /\ \A i \in DOMAIN builds[p] : ~builds[p][i].published
      /\ connections = {} => created = {}

C15_Witness ==
  /\ err["products"].kind = "parse"
  /\ Len(builds["products"]) = 1
  /\ builds["products"][1].st = "resolved"
  /\ builds["products"][1].rec = RecProduct42
  /\ passPc = "failed"

Polling(p) == pc[p] \in {"poll", "pollWait"}

\* C16: the completion phase polls the submitted job, waiting between polls,
\* and ends exactly on a poll that returned COMPLETED (it returns that
\* response) or FAILED (it fails with that response); with polls that are
\* made whenever they can be, a job that reports COMPLETED or FAILED ends
\* the phase.
C16_PollEndsOnCompletedOrFailed ==
  /\ [](\A p \in Pipelines :
          /\ pc[p] \in {"fetch", "done"} => resp[p].status = "COMPLETED"
          /\ pc[p] = "done" <=> (resp[p].status = "COMPLETED"
                                   /\ ReadDigits(resp[p].objectCount, 0) = 0
                                   /\ Head(resp[p].objectCount) \in Digits)
          /\ pc[p] = "failed" =>
               /\ resp[p].status = "FAILED"
               /\ err[p] = [kind |-> "operation", response |-> resp[p]]
          /\ pc[p] = "pollWait" => resp[p].status \notin {"COMPLETED", "FAILED"})
  /\ [][\A p \in Pipelines :
          /\ pc[p] = "pollWait" /\ pc'[p] # "pollWait" => pc'[p] = "poll"
          /\ Polling(p) /\ ~Polling(p)' =>
               pc[p] = "poll" /\ resp'[p].status = jobStatus[p]
                 /\ jobStatus[p] \in {"COMPLETED", "FAILED"}]_vars
  /\ \A p \in Pipelines :
       (Polling(p) /\ jobStatus[p] \in {"COMPLETED", "FAILED"}) ~> ~Polling(p)

C16_Witness ==
  /\ pc["products"] = "fetch"
  /\ resp["products"] = [status |-> "COMPLETED", objectCount |-> <<"2">>]
  /\ pc["orders"] = "failed"
  /\ err["orders"].response.status = "FAILED"

\* the collections the configuration enables
Enabled(p) == p = "products" \/ (p = "orders" /\ "orders" \in connections)

\* C17: a pass is the full load exactly when no timestamp is persisted and the
\* delta load otherwise; either way one job is submitted for each enabled
\* collection and none for a collection that is not enabled.
C17_ModeAndOneJobPerCollection ==
  /\ passPc = "all" => cache = 0
  /\ passPc = "changed" => cache # 0
  /\ mode = "full" => lastBuildTime = 0 /\ (passPc # "done" => cache = 0)
  /\ mode = "delta" => lastBuildTime # 0 /\ cache # 0
  /\ \A p \in Pipelines :
       /\ submits[p] <= 1
       /\ ~Enabled(p) => submits[p] = 0 /\ pc[p] = "off"
       /\ passPc \in {"events", "save", "done"} /\ Enabled(p) => submits[p] = 1

C17_Witness ==
  /\ passPc = "done"
  /\ mode = "delta"
  /\ connections = {"orders"}
  /\ submits = [p \in Pipelines |-> 1]

\* a foreign key of node c holds the global identifier of node parent
ChildOf(c, parent) == \E f \in c.fields : CreateNodeId(f[2]) = parent.id

\* C18: the cascade-delete pass deletes only nodes a destroy event names; the
\* stored children of a node it deletes, unless an event names them too, are
\* not deleted and stay in the host store.
C18_NoCascadeToChildren ==
  (mode = "delta" /\ passPc \in {"save", "done"}) =>
    /\ \A d \in deleted : \E e \in destroyEvents : EventNames(e, d)
    /\ \A d \in deleted : \A c \in StoredCandidates :
         (c.id \in touched /\ ChildOf(c, d)
            /\ ~\E e \in destroyEvents : EventNames(e, c))
           => c \notin deleted /\ \E n \in store : n.id = c.id

C18_Witness ==
  /\ passPc = "done"
  /\ destroyEvents = {[subject_id |-> 42, subject_type |-> ProductStr]}
  /\ deleted = {StoredProduct42}
  /\ ChildOf(StoredVariant42, StoredProduct42)
  /\ ChildOf(StoredVariant7, StoredProduct42)
  /\ StoredVariant42 \in store
  /\ StoredVariant7 \in store

\* what a poll of the current job would report: no job, or a finished one
NoJobOrFinished == current = "none" \/ jobStatus[current] \in finishedStatuses

\* C19: a pipeline leaves its drain phase for the submission only on a poll
\* that reported no current job or a finished one; on any other status it
\* waits and polls again, and it submits nothing before the drain has returned.
C19_DrainUntilNoJobOrFinished ==
  [][\A p \in Pipelines :
       /\ pc[p] = "drain" /\ pc'[p] = "submit" => NoJobOrFinished
       /\ pc[p] = "drain" /\ pc'[p] # "drain" /\ ~NoJobOrFinished =>
            pc'[p] = "drainWait"
       /\ pc[p] = "drainWait" /\ pc'[p] # "drainWait" => pc'[p] = "drain"
       /\ pc[p] # "submit" /\ pc'[p] = "submit" => pc[p] = "drain"
       /\ submits'[p] # submits[p] => pc[p] = "submit"]_vars

C19_Witness ==
  /\ pc["products"] = "submit"
  /\ current = "prior"
  /\ jobStatus["prior"] = "CANCELED"
  /\ submits["products"] = 0

\* C20: a node the Record Builder built from the record with the global
\* identifier gid://shopify/Product/42, stored when a delta pass starts, is
\* deleted by that pass when its change feed holds the destroy event
\* {42, Product}.
C20_BuiltProductDeletedByEvent ==
  LET n == BuildNode(RecProduct42, downloadImages, TRUE).node
  IN (/\ mode = "delta"
      /\ passPc \in {"save", "done"}
      /\ n.id \in touched
      /\ [subject_id |-> 42, subject_type |-> ProductStr] \in destroyEvents)
       => n \in deleted /\ n \notin store

\* the published builds of the products pipeline
Published == {i \in ResolvedBuilds : builds["products"][i].published}

\* C21: when a parent record with global identifier G and a child record with
\* __parentId = G have both been built and published, the children query a
\* resolver runs on the parent node for the child's type returns the child
\* node; every node a children query returns has the queried type and a
\* foreign key equal to the parent's identity; and the query changes nothing
\* in the host store.
C21_ChildrenQueryReturnsChildren ==
  [][query' # query =>
       /\ \A i \in Published, j \in Published :
            LET parent == builds["products"][i]
                child == builds["products"][j]
            IN (/\ child.rec.parentId = parent.rec.id
                /\ query'.source = parent.node.id
                /\ query'.type = child.node.type)
                 => child.node \in query'.nodes
       /\ \A n \in query'.nodes :
            /\ n.type = query'.type
            /\ \E s \in store :
                 /\ s.id = query'.source
                 /\ Field(n, query'.field) = s.shopifyId
            /\ n \in store
       /\ UNCHANGED hostVars]_vars

\* a variant of product 42 and product 42 were published next to a stored
\* variant of product 7, and the variants query on product 42 returned the one
C21_Witness ==
  /\ query.source = CreateNodeId(RecProduct42.id)
  /\ query.type = TypeName(ProductVariantStr)
  /\ query.nodes = {BuildNode(RecVariant7, downloadImages, TRUE).node}
  /\ BuildNode(RecVariant8, FALSE, TRUE).node \in store
  /\ \E i \in Published : builds["products"][i].rec = RecProduct42

\* the pipelines whose last poll returned CANCELED
Canceled == {p \in Pipelines : resp[p].status = "CANCELED"}

\* C22 as stated: once the polled status of a pipeline's job is CANCELED, the
\* completion phase keeps polling and the sync pass never terminates.
C22_CanceledPassNeverEnds ==
  Canceled # {} => passPc = "running"

\* C22 (amended): once the polled status of a pipeline's job is CANCELED, the
\* completion phase neither returns nor fails but polls again after every
\* wait, forever; the sync pass never reaches its cascade-delete pass or its
\* timestamp write, and it ends only by failing with another collection's
\* pipeline.
C22_CanceledPollsForever ==
  /\ [](\A p \in Canceled :
          /\ Polling(p)
          /\ passPc \in {"running", "failed"}
          /\ passPc = "failed" => \E q \in Pipelines \ {p} : pc[q] = "failed")
  /\ \A p \in Pipelines :
       /\ (p \in Canceled) ~> (p \in Canceled /\ pc[p] = "poll")
       /\ (p \in Canceled) ~> (p \in Canceled /\ pc[p] = "pollWait")

\* the products job was polled CANCELED a second time, and the pass has
\* failed with the orders pipeline meanwhile
C22_Witness ==
  /\ "products" \in Canceled
  /\ pc["products"] = "poll"
  /\ jobStatus["products"] = "CANCELED"
  /\ pc["orders"] = "failed"
  /\ passPc = "failed"

\* C23: no remote change is lost between consecutive successful passes: every
\* entity changed after the export job of a pass captured its data (while the
\* pass was polling, streaming or publishing) has a change time later than
\* the LastSyncTimestamp that pass persists.
C23_ChangesAfterCaptureAreLaterThanTimestamp ==
  passPc = "done" => \A c \in changes : c.afterCapture => c.at > cache

\* C24: the persisted LastSyncTimestamp is read but not written from the start
\* of a pass to the end of its last pipeline step: every delta job and the
\* change-feed fetch are given the same value, the one persisted before the
\* run, and the only write is the single one after the branch has returned.
C24_TimestampReadOnlyDuringPass ==
  /\ [](passPc # "done" /\ mode = "delta" =>
          /\ cache # 0
          /\ lastBuildTime = cache
          /\ eventsSince \in {0, cache}
          /\ passPc = "save" => eventsSince = cache
          /\ \A p \in Pipelines : since[p] = IF submits[p] > 0 THEN cache ELSE 0)
  /\ [](mode = "full" => eventsSince = 0 /\ \A p \in Pipelines : since[p] = 0)
  /\ [][/\ cache' # cache => passPc = "save" /\ passPc' = "done"
        /\ passPc = "done" => cache' = cache
        /\ mode # "none" => lastBuildTime' = lastBuildTime
        /\ \A p \in Pipelines : submits[p] > 0 => since'[p] = since[p]
        /\ eventsSince # 0 => eventsSince' = eventsSince]_vars

\* a delta pass with both collections has ended: both jobs and the change
\* feed were asked for the value persisted before, and a later one is stored
C24_Witness ==
  /\ passPc = "done"
  /\ mode = "delta"
  /\ \A p \in Pipelines : submits[p] = 1 /\ since[p] = lastBuildTime
  /\ eventsSince = lastBuildTime
  /\ lastBuildTime = 1
  /\ cache > lastBuildTime

\* the builds of pipeline p that have resolved and are not yet published
Unpublished(p) ==
  {i \in DOMAIN builds[p] : builds[p][i].st = "resolved" /\ ~builds[p][i].published}

\* C25: when the pipeline of one collection fails while the pipeline of the
\* other still runs, the pass fails without waiting for the other: the
\* cascade-delete pass is not run and the timestamp is not advanced; the other
\* pipeline is not cancelled: it goes on reading its stream and can still
\* publish its nodes after the pass has failed.
C25_FailureFailsPassOtherRunsOn ==
  /\ (\E p \in Pipelines : pc[p] = "failed") =>
       /\ passPc \in {"running", "failed", "panicked"}
       /\ passPc = "running" => ENABLED PassFail
       /\ eventsSince = 0 /\ destroyEvents = {} /\ deleted = {}
       /\ cache = PreRunTimestamp
  /\ \A q \in Pipelines :
       (passPc = "failed" /\ pc[q] = "read") =>
          /\ ENABLED ReadEnd(q)
          /\ Unpublished(q) # {} => ENABLED (ReadEnd(q) /\ created' # created)

\* the products job FAILED and the pass has failed, while the orders pipeline
\* is reading its stream and holds a built line item it has not yet published
C25_Witness ==
  /\ passPc = "failed"
  /\ pc["products"] = "failed"
  /\ pc["orders"] = "read"
  /\ Unpublished("orders") # {}
  /\ created = {}
  /\ cache = PreRunTimestamp

\* the builds that returned a node, of both pipelines
Resolved == {b \in UNION {Range(builds[p]) : p \in Pipelines} : b.st = "resolved"}

\* C26: a full load never touches and never deletes a stored node and runs no
\* cascade-delete pass: its only changes of the host store are the createNode
\* calls for the nodes it built and the asset nodes of their downloads.
C26_FullLoadOnlyCreates ==
  /\ [](mode = "full" =>
          /\ touched = {} /\ deleted = {}
          /\ eventsSince = 0 /\ destroyEvents = {}
          /\ \A n \in store :
               \/ \E b \in Resolved : b.published /\ b.node = n
               \/ \E b \in Resolved : n = FileNode(b.node.id)
          /\ created = {b.node.id : b \in {r \in Resolved : r.published}})
  /\ [][mode = "full" /\ mode' = "full" =>
          \A n \in store : \E m \in store' : m.id = n.id]_vars

\* a full load with asset downloads has ended: the store holds a built
\* product and the asset node of its image
C26_Witness ==
  /\ mode = "full"
  /\ passPc = "done"
  /\ BuildNode(RecProduct42, TRUE, TRUE).node \in store
  /\ FileNode(CreateNodeId(RecProduct42.id)) \in store
  /\ CreateNodeId(RecProduct42.id) \in created

(* ------------------------------------------------------------------ *)
(* Specification                                                      *)
(* ------------------------------------------------------------------ *)
Next ==
  \/ SourceNodes
  \/ SourceAllNodes
  \/ SourceChangedNodes
  \/ PassJoin
  \/ PassFail
  \/ FetchDestroyEvents
  \/ FetchDestroyEventsFails
  \/ SaveTime
  \/ \E j \in JobIds : RemoteRun(j) \/ RemoteFinish(j)
  \/ \E p \in Pipelines :
       \/ DrainPoll(p)
       \/ DrainWait(p)
       \/ Submit(p)
       \/ Poll(p)
       \/ PollWait(p)
       \/ Fetch(p)
       \/ ReadLine(p)
       \/ ReadMalformed(p)
       \/ ReadEnd(p)
       \/ PipelineRejects(p)
       \/ PipelineReturns(p)
       \/ \E i \in 1..MaxLines : BuildSettle(p, i)

Spec == Init /\ [][Next]_vars

====
